---------------------------- MODULE Spec2Model ----------------------------
(***************************************************************************)
(* Data quality validation pipeline of momo (src/momo/data/validation.py): *)
(* the four scanners, the report assembler and the point-in-time          *)
(* constituent resolver; and the cache-first loader                        *)
(* (src/momo/data/loader.py) with the cache and the bridge it calls.       *)
(*                                                                         *)
(* A price frame is a record [multi_index, rows]; rows is the sequence of  *)
(* the frame's rows in frame order, each row carrying its (date, symbol)   *)
(* key and the seven columns.  Dates are day numbers counted from Monday   *)
(* 2019-12-30 (day 0), so the weekday of a date d is d % 7 with 0..4 =     *)
(* Monday..Friday and 2020-01-01 is day 2.                                 *)
(* Prices are integers, float NaN is the value NaN; percentage changes are *)
(* kept as exact fractions.                                                *)
(***************************************************************************)
EXTENDS Integers, Sequences, FiniteSets, TLC

VARIABLES
    prices_df,      \* the caller's price frame (validation.py: prices_df)
    ret,            \* last scanner / validate call: op, arguments, frame seen, value
    r_pc,           \* get_index_constituents_at_date: position of the call
    r_args,         \* resolver: index_name, target_date, symbols argument, timeout
    symbols,        \* resolver: candidate list (None until known)
    r_idx,          \* resolver: index of the next candidate of the for loop
    constituents,   \* resolver: members collected so far
    lookups,        \* resolver: membership lookups issued, in order
    responses,      \* resolver: what each lookup returned or raised, in order
    r_out,          \* resolver: outcome seen by the caller
    watchlist_calls, \* resolver: calls of fetch_watchlist_symbols, in order
    cache_file,     \* cache: content of the Parquet file of the key (NoFile if absent)
    l_pc,           \* load_universe: position of the call
    l_args,         \* load_universe: symbols, force_refresh, and what fetch_price_data is
    l_idx,          \* load_universe: index of the next symbol of the for loop
    symbol_dfs,     \* load_universe: frames fetched so far
    failed_symbols, \* load_universe: (symbol, error) of the failed fetches
    load_calls,     \* calls of cache.load_prices, in order, with what each returned
    fetch_calls,    \* calls of bridge.fetch_price_data, in order
    save_calls,     \* calls of cache.save_prices, in order, with the frame passed
    l_out,          \* load_universe: outcome seen by the caller
    l_prev,         \* load_universe: the caller's record of the call before this one
    b_pc,           \* execute_norgate_code: position of the call
    b_args,         \* execute_norgate_code: timeout
    b_runs,         \* what each subprocess.run of the call returned or raised, in order
    b_out           \* execute_norgate_code: outcome seen by the caller

vars == <<prices_df, ret, r_pc, r_args, symbols, r_idx, constituents, lookups, responses, r_out,
          watchlist_calls,
          cache_file, l_pc, l_args, l_idx, symbol_dfs, failed_symbols,
          load_calls, fetch_calls, save_calls, l_out, l_prev,
          b_pc, b_args, b_runs, b_out>>

scanVars == <<prices_df, ret>>
resolverVars == <<r_pc, r_args, symbols, r_idx, constituents, lookups, responses, r_out,
                  watchlist_calls>>
loaderVars == <<cache_file, l_pc, l_args, l_idx, symbol_dfs, failed_symbols,
                load_calls, fetch_calls, save_calls, l_out, l_prev>>
bridgeVars == <<b_pc, b_args, b_runs, b_out>>

-----------------------------------------------------------------------------
(* Bounds *)

MaxRows == 3            \* rows of a frame
MaxCandidates == 2      \* candidate symbols of one resolver call
MaxSymbols == 2         \* symbols of one load_universe call
MaxLines == 2           \* lines of a subprocess's stdout

-----------------------------------------------------------------------------
(* Values *)

NaN == 0 - 1000000      \* float("nan") / NaT: never a price, a dividend or a date
None == NaN - 1         \* Python None where a date is optional

Abs(x) == IF x < 0 THEN 0 - x ELSE x

RECURSIVE SortedSeq(_)
\* Index.sort_values(): the elements of a set of dates in ascending order
SortedSeq(S) ==
    IF S = {} THEN <<>>
    ELSE LET m == CHOOSE x \in S : \A y \in S : x <= y
         IN  <<m>> \o SortedSeq(S \ {m})

Range(s) == {s[i] : i \in DOMAIN s}

\* dates.max() / dates.min(): NaT on an empty index
MaxDate(S) == IF S = {} THEN NaN ELSE CHOOSE x \in S : \A y \in S : y <= x
MinDate(S) == IF S = {} THEN NaN ELSE CHOOSE x \in S : \A y \in S : x <= y

-----------------------------------------------------------------------------
(* Frame access *)

RECURSIVE UniqueSeq(_)
\* Index.unique(): first occurrences, in order of appearance
UniqueSeq(s) ==
    IF s = <<>> THEN <<>>
    ELSE LET init == UniqueSeq(SubSeq(s, 1, Len(s) - 1))
             x == s[Len(s)]
         IN  IF x \in Range(init) THEN init ELSE Append(init, x)

\* the symbol level without unique(): one entry per row
SymbolsWithRepeats(df) == [i \in DOMAIN df.rows |-> df.rows[i].symbol]

\* df.index.get_level_values("symbol").unique().tolist()
UniqueSymbols(df) == UniqueSeq([i \in DOMAIN df.rows |-> df.rows[i].symbol])

\* df.loc[(slice(None), ticker), :]
TickerData(df, ticker) == SelectSeq(df.rows, LAMBDA r : r.symbol = ticker)

\* ticker_data[col].isna().sum()
IsnaSum(ticker_data, col) ==
    Cardinality({i \in DOMAIN ticker_data : ticker_data[i][col] = NaN})

-----------------------------------------------------------------------------
(* 4.1 Missing-value scanner *)

\* nan_count with the volume column counted as well
NanCountWithVolume(df, ticker) ==
    LET ticker_data == TickerData(df, ticker)
    IN  IsnaSum(ticker_data, "open") + IsnaSum(ticker_data, "high")
          + IsnaSum(ticker_data, "low") + IsnaSum(ticker_data, "close")
          + IsnaSum(ticker_data, "volume")

\* nan_count: NaN values of the ticker's rows across the four OHLC columns
NanCount(df, ticker) ==
    LET ticker_data == TickerData(df, ticker)
    IN  IsnaSum(ticker_data, "open") + IsnaSum(ticker_data, "high")
          + IsnaSum(ticker_data, "low") + IsnaSum(ticker_data, "close")

\* the scanner without the isinstance(df.index, pd.MultiIndex) test
_check_missing_values_unguarded(df) ==
    LET flagged == {t \in Range(UniqueSymbols(df)) : NanCount(df, t) > 0}
    IN  [t \in flagged |-> NanCount(df, t)]

_check_missing_values(df) ==
    IF ~df.multi_index THEN <<>>
    ELSE LET flagged == {t \in Range(UniqueSymbols(df)) : NanCount(df, t) > 0}
         IN  [t \in flagged |-> NanCount(df, t)]

-----------------------------------------------------------------------------
(* 4.2 Date-gap scanner *)

\* pd.bdate_range(start, end, freq="B"): the Monday-to-Friday days of [start, end]
bdate_range(start, end) == {d \in start..end : d % 7 < 5}

\* gap_size = len(business_days) - 1
GapSize(date_before, date_after) ==
    Cardinality(bdate_range(date_before, date_after)) - 1

\* the ticker's dates without sort_values(): in frame order
TickerDatesFrameOrder(df, ticker) ==
    LET ticker_data == TickerData(df, ticker)
    IN  UniqueSeq([i \in DOMAIN ticker_data |-> ticker_data[i].date])

\* ticker_data.index.get_level_values("date").unique().sort_values()
TickerDates(df, ticker) ==
    SortedSeq({r.date : r \in Range(TickerData(df, ticker))})

\* the gaps list of one ticker: the loop over consecutive date pairs
TickerGaps(ticker_dates, threshold_days) ==
    LET idx == {i \in 1..(Len(ticker_dates) - 1) :
                    GapSize(ticker_dates[i], ticker_dates[i + 1]) >= threshold_days}
        order == SortedSeq(idx)
    IN  [k \in DOMAIN order |-> <<ticker_dates[order[k]], ticker_dates[order[k] + 1]>>]

_check_date_gaps(df, threshold_days) ==
    IF ~df.multi_index THEN <<>>
    ELSE LET gapsOf(t) == TickerGaps(TickerDates(df, t), threshold_days)
             flagged == {t \in Range(UniqueSymbols(df)) :
                            Len(TickerDates(df, t)) >= 2 /\ gapsOf(t) # <<>>}
         IN  [t \in flagged |-> gapsOf(t)]

-----------------------------------------------------------------------------
(* 4.3 Adjustment-consistency scanner *)

\* threshold_pct: float = 0.40, kept as the exact fraction 2/5
DefaultThresholdPct == [num |-> 2, den |-> 5]

RECURSIVE SortByDate(_)
\* ticker_data.sort_index(): the ticker's rows in ascending date order
SortByDate(rows) ==
    IF rows = <<>> THEN <<>>
    ELSE LET i == CHOOSE i \in DOMAIN rows : \A j \in DOMAIN rows : rows[i].date <= rows[j].date
             rest == [k \in 1..(Len(rows) - 1) |-> IF k < i THEN rows[k] ELSE rows[k + 1]]
         IN  <<rows[i]>> \o SortByDate(rest)

RECURSIVE Pad(_)
\* Series.ffill(), the fill pct_change() applies by default in pandas 2.2:
\* a NaN takes the last valid value before it, leading NaNs stay NaN
Pad(values) ==
    IF values = <<>> THEN <<>>
    ELSE LET init == Pad(SubSeq(values, 1, Len(values) - 1))
             x == values[Len(values)]
         IN  IF x = NaN /\ init # <<>> THEN Append(init, init[Len(init)])
             ELSE Append(init, x)

\* Series.pct_change(): data / data.shift(1) - 1 on the padded series, element i
\* as the exact fraction num / den; nan marks an undefined change
pct_change(values) ==
    LET data == Pad(values)
    IN  [i \in DOMAIN values |->
            IF i = 1 \/ data[i] = NaN \/ data[i - 1] = NaN
            THEN [nan |-> TRUE, num |-> 0, den |-> 1]
            ELSE IF data[i - 1] = 0
            THEN [nan |-> data[i] = 0, num |-> data[i], den |-> 0]
            ELSE [nan |-> FALSE, num |-> data[i] - data[i - 1], den |-> data[i - 1]]]

\* pct_changes.abs() > threshold_pct; a NaN compares False, a division by zero is inf
AbsGreater(pct, threshold_pct) ==
    /\ ~pct.nan
    /\ IF pct.den = 0 THEN TRUE
       ELSE Abs(pct.num) * threshold_pct.den > threshold_pct.num * Abs(pct.den)

\* (ticker_data["close"] < 0).any()
NegativePrices(ticker_data) ==
    \E i \in DOMAIN ticker_data : ticker_data[i].close # NaN /\ ticker_data[i].close < 0

\* ((pct_changes.abs() > threshold_pct) & (ticker_data["dividend"] == 0.0)).any()
SuspiciousJumps(ticker_data, threshold_pct) ==
    LET pct_changes == pct_change([i \in DOMAIN ticker_data |-> ticker_data[i].close])
    IN  \E i \in DOMAIN ticker_data :
            /\ AbsGreater(pct_changes[i], threshold_pct)
            /\ ticker_data[i].dividend = 0

\* one round of the for loop without the continue after the first append
AppendedWithoutContinue(df, ticker, threshold_pct) ==
    LET ticker_data == SortByDate(TickerData(df, ticker))
    IN  (IF NegativePrices(ticker_data) THEN <<ticker>> ELSE <<>>)
        \o (IF SuspiciousJumps(ticker_data, threshold_pct) THEN <<ticker>> ELSE <<>>)

\* one round of the for loop: what it appends to result
Appended(df, ticker, threshold_pct) ==
    LET ticker_data == SortByDate(TickerData(df, ticker))
    IN  IF NegativePrices(ticker_data) THEN <<ticker>>
        ELSE IF SuspiciousJumps(ticker_data, threshold_pct) THEN <<ticker>>
        ELSE <<>>

RECURSIVE AppendedOver(_, _, _)
\* the rounds of the for loop over tickers, in order
AppendedOver(df, tickers, threshold_pct) ==
    IF tickers = <<>> THEN <<>>
    ELSE Appended(df, Head(tickers), threshold_pct)
         \o AppendedOver(df, Tail(tickers), threshold_pct)

_check_adjustment_consistency(df, threshold_pct) ==
    IF ~df.multi_index THEN <<>>
    ELSE AppendedOver(df, UniqueSymbols(df), threshold_pct)

-----------------------------------------------------------------------------
(* 4.4 Delisting detector *)

\* the comparison with >= in place of >
ExceedsOrEqual(gap_days, threshold_days) == gap_days >= threshold_days

\* gap_days > threshold_days
Exceeds(gap_days, threshold_days) == gap_days > threshold_days

\* the ticker's first date in place of its last
FirstDate(df, ticker) == MinDate({r.date : r \in Range(TickerData(df, ticker))})

\* ticker_dates.max().date()
LastDate(df, ticker) == MaxDate({r.date : r \in Range(TickerData(df, ticker))})

check_delisting_status(df, query_end_date, threshold_days) ==
    IF ~df.multi_index THEN <<>>
    ELSE LET dates == {r.date : r \in Range(df.rows)}
             end == IF query_end_date = None THEN MaxDate(dates) ELSE query_end_date
             flagged == {t \in Range(UniqueSymbols(df)) :
                            Exceeds(end - LastDate(df, t), threshold_days)}
         IN  [t \in flagged |-> LastDate(df, t)]

-----------------------------------------------------------------------------
(* 4.6 Validation report assembler *)

DefaultGapThreshold == 10       \* _check_date_gaps(threshold_days=10)
DefaultDelistingThreshold == 30 \* check_delisting_status(threshold_days=30)
PlaceholderDate == 2            \* date_type(2020, 1, 1), a Wednesday

RECURSIVE SumValues(_, _)
\* sum(d.values()) over the keys S of a dict d
SumValues(d, S) ==
    IF S = {} THEN 0
    ELSE LET k == CHOOSE k \in S : TRUE
         IN  d[k] + SumValues(d, S \ {k})

\* is_valid with the adjustment issues left out of the verdict
IsValidNoAdjustment(missing_data_counts, date_gaps, adjustment_issues) ==
    DOMAIN missing_data_counts = {} /\ DOMAIN date_gaps = {}

\* is_valid = len(missing_data_counts) == 0 and len(date_gaps) == 0
\*            and len(adjustment_issues) == 0
IsValid(missing_data_counts, date_gaps, adjustment_issues) ==
    /\ DOMAIN missing_data_counts = {}
    /\ DOMAIN date_gaps = {}
    /\ Len(adjustment_issues) = 0

\* f"{n}": the decimal numeral of an int
str(n) == ToString(n)

\* len(d) and sum(...) of the four containers as the numerals the f-strings
\* print; an empty container, which the if statements skip, is <<>>
IssueCounts(missing_data_counts, date_gaps, adjustment_issues, delisting_events) ==
    [missing |->
        IF DOMAIN missing_data_counts # {}
        THEN <<str(Cardinality(DOMAIN missing_data_counts)),
               str(SumValues(missing_data_counts, DOMAIN missing_data_counts))>>
        ELSE <<>>,
     gaps |->
        IF DOMAIN date_gaps # {}
        THEN <<str(Cardinality(DOMAIN date_gaps)),
               str(SumValues([t \in DOMAIN date_gaps |-> Len(date_gaps[t])], DOMAIN date_gaps))>>
        ELSE <<>>,
     adjustment |->
        IF Len(adjustment_issues) # 0 THEN <<str(Len(adjustment_issues))>> ELSE <<>>,
     delisted |->
        IF DOMAIN delisting_events # {}
        THEN <<str(Cardinality(DOMAIN delisting_events))>>
        ELSE <<>>]

\* the four f-strings appended to issues
MissingClause(c) == c[1] \o " ticker(s) with " \o c[2] \o " missing value(s)"
GapsClause(c) == c[1] \o " ticker(s) with " \o c[2] \o " date gap(s)"
AdjustmentClause(c) == c[1] \o " ticker(s) with adjustment issue(s)"
DelistedClause(c) == c[1] \o " delisted"

\* the issues list with the delisting clause appended before the adjustment one
IssuesDelistedFirst(counts) ==
    (IF counts.missing # <<>> THEN <<MissingClause(counts.missing)>> ELSE <<>>)
    \o (IF counts.gaps # <<>> THEN <<GapsClause(counts.gaps)>> ELSE <<>>)
    \o (IF counts.delisted # <<>> THEN <<DelistedClause(counts.delisted)>> ELSE <<>>)
    \o (IF counts.adjustment # <<>> THEN <<AdjustmentClause(counts.adjustment)>> ELSE <<>>)

\* the issues list: one clause per populated category, in the order of the code
Issues(counts) ==
    (IF counts.missing # <<>> THEN <<MissingClause(counts.missing)>> ELSE <<>>)
    \o (IF counts.gaps # <<>> THEN <<GapsClause(counts.gaps)>> ELSE <<>>)
    \o (IF counts.adjustment # <<>> THEN <<AdjustmentClause(counts.adjustment)>> ELSE <<>>)
    \o (IF counts.delisted # <<>> THEN <<DelistedClause(counts.delisted)>> ELSE <<>>)

RECURSIVE Join(_)
\* "; ".join(issues)
Join(issues) ==
    IF issues = <<>> THEN ""
    ELSE IF Len(issues) = 1 THEN issues[1]
    ELSE issues[1] \o "; " \o Join(Tail(issues))

\* the cut with summary_message[:200] in place of summary_message[:197]
TruncateKeeping200(summary_message) ==
    IF Len(summary_message) > 200
    THEN SubSeq(summary_message, 1, 200) \o "..."
    ELSE summary_message

\* if len(summary_message) > 200: summary_message = summary_message[:197] + "..."
Truncate(summary_message) ==
    IF Len(summary_message) > 200
    THEN SubSeq(summary_message, 1, 197) \o "..."
    ELSE summary_message

\* the summary_message of a report, from the issue counts and str(total_tickers)
SummaryMessage(counts, total_tickers) ==
    LET issues == Issues(counts)
    IN  IF issues # <<>>
        THEN Truncate("Validation found issues: " \o Join(issues))
        ELSE "Validation complete: " \o total_tickers \o " tickers, no issues detected"

\* the delisting check run whatever check_delistings says
DelistingEventsAlways(df, check_delistings, end_date) ==
    check_delisting_status(df, end_date, DefaultDelistingThreshold)

\* if check_delistings: check_delisting_status(prices_df, query_end_date=end_date)
\* else: {}
DelistingEvents(df, check_delistings, end_date) ==
    IF check_delistings
    THEN check_delisting_status(df, end_date, DefaultDelistingThreshold)
    ELSE <<>>

validate_prices(df, check_delistings) ==
    LET syms == IF df.multi_index THEN UniqueSymbols(df) ELSE <<>>
        dates == {r.date : r \in Range(df.rows)}
        start_date == IF df.multi_index THEN MinDate(dates) ELSE PlaceholderDate
        end_date == IF df.multi_index THEN MaxDate(dates) ELSE PlaceholderDate
        total_tickers == Len(syms)
        missing_data_counts == _check_missing_values(df)
        date_gaps == _check_date_gaps(df, DefaultGapThreshold)
        adjustment_issues == _check_adjustment_consistency(df, DefaultThresholdPct)
        delisting_events == DelistingEvents(df, check_delistings, end_date)
    IN  [total_tickers |-> total_tickers,
         date_range |-> <<start_date, end_date>>,
         missing_data_counts |-> missing_data_counts,
         date_gaps |-> date_gaps,
         adjustment_issues |-> adjustment_issues,
         delisting_events |-> delisting_events,
         summary_message |->
            SummaryMessage(IssueCounts(missing_data_counts, date_gaps,
                                       adjustment_issues, delisting_events),
                           str(total_tickers)),
         is_valid |-> IsValid(missing_data_counts, date_gaps, adjustment_issues)]

-----------------------------------------------------------------------------
(* The frames the caller passes in.  The loader hands over rows one by one, *)
(* in any order, each (date, symbol) key at most once.                      *)

Tickers == {"AAPL", "MSFT"}

MaxDay == 7             \* last day number of the date-gap frames
MaxDelistDay == 3       \* last day number of the delisting frames
MaxThreshold == 3       \* largest threshold_days passed to _check_date_gaps
MaxDelistThreshold == 2 \* largest threshold_days passed to check_delisting_status

\* a complete row, the values of the clean test frame
Row(d, s) ==
    [date |-> d, symbol |-> s, open |-> 100, high |-> 105, low |-> 95, close |-> 102,
     volume |-> 1000000, unadjusted_close |-> 102, dividend |-> 0]

\* the row with NaN in the columns nulls
NullRow(d, s, nulls) ==
    LET r == Row(d, s)
    IN  [f \in DOMAIN r |-> IF f \in nulls THEN NaN ELSE r[f]]

NullPatterns ==
    { {}, {"open"}, {"high", "low"}, {"close", "dividend"},
      {"volume", "unadjusted_close", "dividend"}, {"open", "high", "low", "close"} }

MissingRows == {NullRow(d, s, n) : d \in 0..1, s \in Tickers, n \in NullPatterns}

GapRows == {Row(d, s) : d \in 0..MaxDay, s \in Tickers}

AdjustRows ==
    {[Row(d, "AAPL") EXCEPT !.close = c, !.dividend = v] :
        d \in 0..2, c \in {NaN, 0 - 5, 10, 14, 15}, v \in {0, 1}}
    \cup {[Row(d, "MSFT") EXCEPT !.close = c] : d \in 0..1, c \in {10, 15}}

ThresholdPcts == {[num |-> 1, den |-> 4], DefaultThresholdPct, [num |-> 1, den |-> 2]}

DelistRows == {Row(d, s) : d \in 0..MaxDelistDay, s \in Tickers}

\* day 0, ten business days later, and more than thirty days after that
ValidateDates == {0, 14, 45}

ValidateRows ==
    {[Row(d, s) EXCEPT !.close = c] : d \in ValidateDates, s \in Tickers, c \in {102, 150, 0 - 50}}
    \cup {NullRow(d, s, {"open"}) : d \in ValidateDates, s \in Tickers}

NoCall == [op |-> "none", df |-> <<>>, arg |-> <<>>, out |-> <<>>]

\* the loader appends one row of the universe U to the frame
LoadRow(U) ==
    /\ ret.op = "none"
    /\ prices_df.multi_index
    /\ Len(prices_df.rows) < MaxRows
    /\ \E r \in U :
          /\ \A i \in DOMAIN prices_df.rows :
                <<prices_df.rows[i].date, prices_df.rows[i].symbol>> # <<r.date, r.symbol>>
          /\ prices_df' = [prices_df EXCEPT !.rows = Append(@, r)]
    /\ UNCHANGED <<ret, resolverVars, loaderVars, bridgeVars>>

LoadMissingRow == LoadRow(MissingRows)
LoadGapRow == LoadRow(GapRows)
LoadAdjustRow == LoadRow(AdjustRows)
LoadDelistRow == LoadRow(DelistRows)
LoadValidateRow == LoadRow(ValidateRows)

\* the caller drops the (date, symbol) index before passing the frame on, as
\* reset_index(drop=True) does: the rows keep their seven columns only
ResetIndex ==
    /\ ret.op = "none"
    /\ prices_df.multi_index
    /\ prices_df' =
          [multi_index |-> FALSE,
           rows |-> [i \in DOMAIN prices_df.rows |->
                        [prices_df.rows[i] EXCEPT !.date = None, !.symbol = ""]]]
    /\ UNCHANGED <<ret, resolverVars, loaderVars, bridgeVars>>

-----------------------------------------------------------------------------
(* Calls of the scanners and of validate_prices.  Every function works on   *)
(* df = prices_df.copy() and returns a new value: prices_df is unchanged.   *)

\* a call that sorts the caller's frame in place instead of a copy
CallSortingInPlace(op, arg, out) ==
    /\ ret.op = "none"
    /\ ret' = [op |-> op, df |-> prices_df, arg |-> arg, out |-> out]
    /\ prices_df' = [prices_df EXCEPT !.rows = SortByDate(@)]
    /\ UNCHANGED <<resolverVars, loaderVars, bridgeVars>>

Call(op, arg, out) ==
    /\ ret.op = "none"
    /\ ret' = [op |-> op, df |-> prices_df, arg |-> arg, out |-> out]
    /\ UNCHANGED <<prices_df, resolverVars, loaderVars, bridgeVars>>

Call_check_missing_values ==
    Call("_check_missing_values", <<>>, _check_missing_values(prices_df))

Call_check_date_gaps ==
    \E threshold_days \in 0..MaxThreshold :
        Call("_check_date_gaps", threshold_days, _check_date_gaps(prices_df, threshold_days))

Call_check_adjustment_consistency ==
    \E threshold_pct \in ThresholdPcts :
        Call("_check_adjustment_consistency", threshold_pct,
             _check_adjustment_consistency(prices_df, threshold_pct))

Call_check_delisting_status ==
    \E query_end_date \in (0..(MaxDelistDay + 1)) \cup {None},
       threshold_days \in 0..MaxDelistThreshold :
        Call("check_delisting_status",
             [query_end_date |-> query_end_date, threshold_days |-> threshold_days],
             check_delisting_status(prices_df, query_end_date, threshold_days))

Call_validate_prices ==
    \E check_delistings \in BOOLEAN :
        Call("validate_prices", check_delistings, validate_prices(prices_df, check_delistings))

\* The numerals the f-strings can print: a Python int has no upper bound, so
\* the composer is also applied to counts beyond those of the frames above.
Numerals == {"1", "123456789012", "1234567890123"}

\* a category's counts: <<>> for an empty container, else n numerals
CountChoices(n) == {<<>>} \cup [1..n -> Numerals]

\* lines 772-796 of validate_prices applied to the counts of four containers
Call_summary_message ==
    \E missing \in CountChoices(2), gaps \in CountChoices(2),
       adjustment \in CountChoices(1), delisted \in CountChoices(1),
       total_tickers \in Numerals :
        LET counts == [missing |-> missing, gaps |-> gaps,
                       adjustment |-> adjustment, delisted |-> delisted]
        IN  Call("summary_message", [counts |-> counts, total_tickers |-> total_tickers],
                 SummaryMessage(counts, total_tickers))

-----------------------------------------------------------------------------
(* 4.5 Point-in-time constituent resolver *)

\* The errors a remote lookup can raise.  cls is the exception class,
\* not_found tells whether "not found" occurs in the lower-cased message.
\* execute_norgate_code raises the first six; the messages of the generic
\* failure and of the parse failure quote the remote output, which may hold
\* any text.  An invalid symbol or index is a ValueError, or a bridge error
\* whose message says the name was not found.
BridgeErrors ==
    { [kind |-> "interpreter_missing", cls |-> "WindowsPythonNotFoundError", not_found |-> TRUE],
      [kind |-> "timeout", cls |-> "NorgateBridgeError", not_found |-> FALSE],
      [kind |-> "service_down", cls |-> "NDUNotRunningError", not_found |-> FALSE],
      [kind |-> "package_missing", cls |-> "NorgateBridgeError", not_found |-> TRUE] }
    \cup {[kind |-> "generic_failure", cls |-> "NorgateBridgeError", not_found |-> b] : b \in BOOLEAN}
    \cup {[kind |-> "malformed_output", cls |-> "NorgateBridgeError", not_found |-> b] : b \in BOOLEAN}

InvalidReferenceErrors ==
    { [kind |-> "invalid_reference", cls |-> "ValueError", not_found |-> TRUE],
      [kind |-> "invalid_reference", cls |-> "ValueError", not_found |-> FALSE],
      [kind |-> "invalid_reference", cls |-> "NorgateBridgeError", not_found |-> TRUE] }

LookupErrors == BridgeErrors \cup InvalidReferenceErrors

\* except NorgateBridgeError: the class and its subclass NDUNotRunningError
IsNorgateBridgeError(e) == e.cls \in {"NorgateBridgeError", "NDUNotRunningError"}

\* the handlers without the except ValueError clause
SkippedBridgeErrorOnly(e) ==
    IsNorgateBridgeError(e) /\ e.not_found

\* the handlers with the bridge error of a timeout skipped as well
SkippedWithTimeout(e) ==
    \/ e.cls = "ValueError"
    \/ IsNorgateBridgeError(e) /\ (e.not_found \/ e.kind = "timeout")

\* the handlers without the "not found" branch of except NorgateBridgeError
SkippedValueErrorOnly(e) == e.cls = "ValueError"

\* the two except clauses: TRUE when the error is logged and the symbol skipped,
\* FALSE when it leaves the function (re-raised, or caught by no clause)
Skipped(e) ==
    \/ e.cls = "ValueError"
    \/ IsNorgateBridgeError(e) /\ e.not_found

NoError == [kind |-> "none", cls |-> "none", not_found |-> FALSE]

WindowDays == 5         \* timedelta(days=5)

IndexNames == {"Russell 1000 Current & Past"}
TargetDates == {10}
Timeouts == {300}
Candidates == {"AAPL", "BOGUS"}

RECURSIVE SeqsUpTo(_, _)
\* the sequences over S of length at most n
SeqsUpTo(S, n) ==
    IF n = 0 THEN {<<>>}
    ELSE LET shorter == SeqsUpTo(S, n - 1)
         IN  shorter \cup {Append(q, x) : q \in shorter, x \in S}

\* a membership timeseries: at most two entries (date, index_constituent) in
\* ascending date order, dated within two days of the target date
SeriesFor(target_date) ==
    LET days == (target_date - 2)..(target_date + 2)
    IN  UNION { { [k \in 1..Cardinality(D) |->
                      [date |-> SortedSeq(D)[k], index_constituent |-> f[SortedSeq(D)[k]]]]
                  : f \in [D -> {0, 1}] }
                : D \in {E \in SUBSET days : Cardinality(E) <= 2} }

\* is_member with nearest_date[0] in place of nearest_date[-1]
IsMemberFirstPrior(timeseries, target_date) ==
    LET exact == {i \in DOMAIN timeseries : timeseries[i].date = target_date}
        nearest_date == SelectSeq(timeseries, LAMBDA e : e.date <= target_date)
    IN  IF exact # {}
        THEN timeseries[CHOOSE i \in exact : TRUE].index_constituent # 0
        ELSE IF Len(nearest_date) > 0
        THEN nearest_date[1].index_constituent # 0
        ELSE timeseries[1].index_constituent # 0

\* is_member: the exact entry, else the last one at or before target_date,
\* else the first entry of the series
IsMember(timeseries, target_date) ==
    LET exact == {i \in DOMAIN timeseries : timeseries[i].date = target_date}
        nearest_date == SelectSeq(timeseries, LAMBDA e : e.date <= target_date)
    IN  IF exact # {}
        THEN timeseries[CHOOSE i \in exact : TRUE].index_constituent # 0
        ELSE IF Len(nearest_date) > 0
        THEN nearest_date[Len(nearest_date)].index_constituent # 0
        ELSE timeseries[1].index_constituent # 0

Ok(series) == [ok |-> TRUE, series |-> series, error |-> NoError]
Err(e) == [ok |-> FALSE, series |-> <<>>, error |-> e]

\* fetch_index_constituent_timeseries(...): a series, or an error
LookupResponses(target_date) ==
    {Ok(s) : s \in SeriesFor(target_date)} \cup {Err(e) : e \in LookupErrors}

NoOutcome == [raised |-> FALSE, value |-> <<>>, error |-> NoError]

\* the lookup made with a timeout of 30 seconds in place of the caller's
LookupArgumentsDefaultTimeout(symbol, args) ==
    [symbol |-> symbol, index_name |-> args.index_name,
     start_date |-> args.target_date - WindowDays,
     end_date |-> args.target_date + WindowDays,
     timeout |-> 30]

\* the keyword arguments of fetch_index_constituent_timeseries for one symbol
LookupArguments(symbol, args) ==
    [symbol |-> symbol, index_name |-> args.index_name,
     start_date |-> args.target_date - WindowDays,
     end_date |-> args.target_date + WindowDays,
     timeout |-> args.timeout]

\* the member put in front of the list
CollectInFront(members, symbol) == <<symbol>> \o members

\* constituents.append(symbol)
Collect(members, symbol) == Append(members, symbol)

\* the call with an explicit symbol list
ResolveCall ==
    /\ r_pc = "idle"
    /\ \E index_name \in IndexNames, target_date \in TargetDates, timeout \in Timeouts,
          syms \in SeqsUpTo(Candidates, MaxCandidates) :
          /\ r_args' = [index_name |-> index_name, target_date |-> target_date,
                        symbols_given |-> TRUE, timeout |-> timeout]
          /\ symbols' = syms
    /\ r_pc' = "loop"
    /\ r_idx' = 1
    /\ constituents' = <<>>
    /\ UNCHANGED <<lookups, responses, r_out, watchlist_calls, scanVars, loaderVars, bridgeVars>>

\* the call with symbols=None: fetch_watchlist_symbols runs outside the try
\* block, so whatever it raises leaves the function
ResolveCallWatchlist ==
    /\ r_pc = "idle"
    /\ \E index_name \in IndexNames, target_date \in TargetDates, timeout \in Timeouts :
          /\ r_args' = [index_name |-> index_name, target_date |-> target_date,
                        symbols_given |-> FALSE, timeout |-> timeout]
          /\ watchlist_calls' = Append(watchlist_calls,
                [watchlist_name |-> index_name, timeout |-> timeout,
                 lookups_before |-> Len(lookups)])
    /\ \/ \E syms \in SeqsUpTo(Candidates, MaxCandidates) :
             /\ symbols' = syms
             /\ r_pc' = "loop"
             /\ r_out' = r_out
       \/ \E e \in LookupErrors :
             /\ symbols' = symbols
             /\ r_pc' = "raised"
             /\ r_out' = [raised |-> TRUE, value |-> <<>>, error |-> e]
    /\ r_idx' = 1
    /\ constituents' = <<>>
    /\ UNCHANGED <<lookups, responses, scanVars, loaderVars, bridgeVars>>

\* one round of the for loop: the lookup of symbols[r_idx] and what follows it
ResolveLookup ==
    /\ r_pc = "loop"
    /\ r_idx <= Len(symbols)
    /\ \E resp \in LookupResponses(r_args.target_date) :
          /\ lookups' = Append(lookups, LookupArguments(symbols[r_idx], r_args))
          /\ responses' = Append(responses, resp)
          /\ IF resp.ok
             THEN /\ constituents' =
                        IF resp.series # <<>> /\ IsMember(resp.series, r_args.target_date)
                        THEN Collect(constituents, symbols[r_idx])
                        ELSE constituents
                  /\ r_idx' = r_idx + 1
                  /\ UNCHANGED <<r_pc, r_out>>
             ELSE IF Skipped(resp.error)
             THEN /\ r_idx' = r_idx + 1
                  /\ UNCHANGED <<r_pc, r_out, constituents>>
             ELSE /\ r_pc' = "raised"
                  /\ r_out' = [raised |-> TRUE, value |-> <<>>, error |-> resp.error]
                  /\ UNCHANGED <<r_idx, constituents>>
    /\ UNCHANGED <<r_args, symbols, watchlist_calls, scanVars, loaderVars, bridgeVars>>

\* the loop is over: return constituents
ResolveReturn ==
    /\ r_pc = "loop"
    /\ r_idx > Len(symbols)
    /\ r_pc' = "returned"
    /\ r_out' = [raised |-> FALSE, value |-> constituents, error |-> NoError]
    /\ UNCHANGED <<r_args, symbols, r_idx, constituents, lookups, responses, watchlist_calls,
                   scanVars, loaderVars, bridgeVars>>

-----------------------------------------------------------------------------
(* Loader (src/momo/data/loader.py) with the cache and the bridge it calls.  *)
(* A frame of the loader is [index, columns, parts]: the names of its index  *)
(* levels, its set of columns, and one part per fetched symbol frame, in     *)
(* concatenation order.  Column dtypes are not modelled.                     *)

LoaderTickers == {"AAPL", "MSFT"}

\* cache.py required_columns
RequiredColumns == {"open", "high", "low", "close", "volume", "unadjusted_close", "dividend"}

\* bridge.py required_columns, without the date (made the index) and the symbol
FetchColumns == {"open", "high", "low", "close", "volume"}

\* what fetch_price_data returns: the rows of one symbol, indexed by date, with
\* the symbol as a column
FetchedFrame(symbol, close) ==
    [index |-> <<"date">>,
     columns |-> FetchColumns \cup {"symbol"},
     parts |-> <<[symbol |-> symbol, close |-> close]>>]

\* what fetch_price_data raises: the errors of execute_norgate_code and of the
\* parsing, and the OSError the retry re-raises after its last attempt
FetchErrors ==
    BridgeErrors \cup {[kind |-> "os_error", cls |-> "OSError", not_found |-> FALSE]}

\* except (NDUNotRunningError, WindowsPythonNotFoundError, NorgateBridgeError)
Caught(e) ==
    e.cls \in {"NDUNotRunningError", "WindowsPythonNotFoundError", "NorgateBridgeError"}

\* what the patched fetch_price_data of the loader's tests returns: the rows of
\* one symbol of the sample_price_df fixture, keyed by (date, symbol), with the
\* seven columns of the cache schema
SampleFrame(symbol) ==
    [index |-> <<"date", "symbol">>,
     columns |-> RequiredColumns,
     parts |-> <<[symbol |-> symbol, close |-> 102]>>]

\* what the loader's bridge.fetch_price_data is during a call: the function of
\* bridge.py, or the stand-in the tests patch in
FetchImplementations == {"bridge", "patched"}

FetchOutcomes(symbol, impl) ==
    (IF impl = "bridge"
     THEN {[ok |-> TRUE, df |-> FetchedFrame(symbol, c), error |-> NoError] : c \in {102, 200}}
     ELSE {[ok |-> TRUE, df |-> SampleFrame(symbol), error |-> NoError]})
    \cup {[ok |-> FALSE, df |-> FetchedFrame(symbol, 0), error |-> e] : e \in FetchErrors}

RECURSIVE ConcatParts(_)
ConcatParts(dfs) ==
    IF dfs = <<>> THEN <<>> ELSE Head(dfs).parts \o ConcatParts(Tail(dfs))

\* pd.concat(symbol_dfs, axis=0): the rows one frame after the other, the union
\* of the columns
concat(dfs) ==
    [index |-> dfs[1].index,
     columns |-> UNION {dfs[i].columns : i \in DOMAIN dfs},
     parts |-> ConcatParts(dfs)]

\* if "symbol" in combined_df.columns: combined_df.set_index("symbol", append=True)
set_index_symbol(df) ==
    IF "symbol" \in df.columns
    THEN [index |-> Append(df.index, "symbol"),
          columns |-> df.columns \ {"symbol"},
          parts |-> df.parts]
    ELSE df

\* the CacheError raised, by the check that raises it, or "ok"
_validate_price_schema(df) ==
    IF df.parts = <<>> THEN "empty"
    ELSE IF RequiredColumns \ df.columns # {} THEN "missing_columns"
    ELSE IF Len(df.index) < 2 THEN "not_multiindex"
    ELSE IF df.index # <<"date", "symbol">> THEN "index_names"
    ELSE "ok"

\* frames a cache file can hold: they passed _validate_price_schema
CachedFrames ==
    {[index |-> <<"date", "symbol">>, columns |-> RequiredColumns, parts |-> q] :
        q \in { <<[symbol |-> "AAPL", close |-> 100]>>,
                <<[symbol |-> "AAPL", close |-> 100], [symbol |-> "MSFT", close |-> 100]>> }}

NoResult == [raised |-> FALSE, value |-> <<>>, error |-> "none"]

\* no call before this one
NoPrevious ==
    [called |-> FALSE, symbols |-> <<>>, failed |-> <<>>, saved |-> <<>>, value |-> <<>>]

\* cache.save_prices of an earlier session: the file of the key exists
SavePricesEarlier ==
    /\ l_pc = "idle"
    /\ cache_file = <<>>
    /\ \E df \in CachedFrames :
          /\ _validate_price_schema(df) = "ok"
          /\ cache_file' = <<df>>
    /\ UNCHANGED <<l_pc, l_args, l_idx, symbol_dfs, failed_symbols,
                   load_calls, fetch_calls, save_calls, l_out, l_prev, scanVars, resolverVars, bridgeVars>>

\* load_universe without its cache step
ReadsCacheNever(force_refresh) == FALSE

\* the reading of the cache with load_prices in place of the force_refresh test
ReadsCacheAlways(force_refresh) == TRUE

\* if not force_refresh: cached_df = cache.load_prices(...)
ReadsCache(force_refresh) == ~force_refresh

\* load_universe up to the for loop: the cache is read unless force_refresh,
\* and a hit is returned at once
LoadUniverseCall ==
    /\ l_pc = "idle"
    /\ \E syms \in SeqsUpTo(LoaderTickers, MaxSymbols), force_refresh \in BOOLEAN,
          impl \in FetchImplementations :
          /\ l_args' = [symbols |-> syms, force_refresh |-> force_refresh,
                        fetch_price_data |-> impl]
          /\ IF ReadsCache(force_refresh)
             THEN /\ load_calls' = Append(load_calls, cache_file)
                  /\ IF cache_file # <<>>
                     THEN /\ l_pc' = "returned"
                          /\ l_out' = [raised |-> FALSE, value |-> cache_file, error |-> "none"]
                     ELSE /\ l_pc' = "fetch"
                          /\ l_out' = l_out
             ELSE /\ load_calls' = load_calls
                  /\ l_pc' = "fetch"
                  /\ l_out' = l_out
    /\ l_idx' = 1
    /\ symbol_dfs' = <<>>
    /\ failed_symbols' = <<>>
    /\ UNCHANGED <<cache_file, fetch_calls, save_calls, l_prev, scanVars, resolverVars, bridgeVars>>

\* one round of the for loop: fetch_price_data for symbols[l_idx]
LoadUniverseFetch ==
    /\ l_pc = "fetch"
    /\ l_idx <= Len(l_args.symbols)
    /\ LET symbol == l_args.symbols[l_idx]
       IN  \E outcome \in FetchOutcomes(symbol, l_args.fetch_price_data) :
              /\ fetch_calls' = Append(fetch_calls, [symbol |-> symbol, outcome |-> outcome])
              /\ IF outcome.ok
                 THEN /\ symbol_dfs' = Append(symbol_dfs, outcome.df)
                      /\ l_idx' = l_idx + 1
                      /\ UNCHANGED <<failed_symbols, l_pc, l_out>>
                 ELSE IF Caught(outcome.error)
                 THEN /\ failed_symbols' = Append(failed_symbols, <<symbol, outcome.error>>)
                      /\ l_idx' = l_idx + 1
                      /\ UNCHANGED <<symbol_dfs, l_pc, l_out>>
                 ELSE /\ l_pc' = "raised"
                      /\ l_out' = [raised |-> TRUE, value |-> <<>>, error |-> outcome.error.cls]
                      /\ UNCHANGED <<symbol_dfs, failed_symbols, l_idx>>
    /\ UNCHANGED <<cache_file, l_args, load_calls, save_calls, l_prev, scanVars, resolverVars, bridgeVars>>

\* after the loop: ValueError when nothing was fetched, else concat, set_index,
\* cache.save_prices (which validates before it writes) and return
LoadUniverseFinish ==
    /\ l_pc = "fetch"
    /\ l_idx > Len(l_args.symbols)
    /\ IF symbol_dfs = <<>>
       THEN /\ l_pc' = "raised"
            /\ l_out' = [raised |-> TRUE, value |-> <<>>, error |-> "ValueError"]
            /\ UNCHANGED <<cache_file, save_calls>>
       ELSE LET combined_df == set_index_symbol(concat(symbol_dfs))
            IN  /\ save_calls' = Append(save_calls, combined_df)
                /\ IF _validate_price_schema(combined_df) = "ok"
                   THEN /\ cache_file' = <<combined_df>>
                        /\ l_pc' = "returned"
                        /\ l_out' = [raised |-> FALSE, value |-> <<combined_df>>, error |-> "none"]
                   ELSE /\ cache_file' = cache_file
                        /\ l_pc' = "raised"
                        /\ l_out' = [raised |-> TRUE, value |-> <<>>, error |-> "CacheError"]
    /\ UNCHANGED <<l_args, l_idx, symbol_dfs, failed_symbols, load_calls, fetch_calls,
                   l_prev, scanVars, resolverVars, bridgeVars>>

\* the caller's next call after a call that returned, as in the tests that call
\* load_universe twice: the caller keeps which symbols the finished call was
\* asked for, which of them failed, what it passed to save_prices and what it
\* returned; the cache file stays as the call left it
LoadUniverseNext ==
    /\ l_pc = "returned"
    /\ l_prev' = [called |-> TRUE,
                  symbols |-> l_args.symbols,
                  failed |-> [i \in DOMAIN failed_symbols |-> failed_symbols[i][1]],
                  saved |-> save_calls,
                  value |-> l_out.value]
    /\ l_pc' = "idle"
    /\ l_idx' = 1
    /\ symbol_dfs' = <<>>
    /\ failed_symbols' = <<>>
    /\ load_calls' = <<>>
    /\ fetch_calls' = <<>>
    /\ save_calls' = <<>>
    /\ l_out' = NoResult
    /\ UNCHANGED <<cache_file, l_args, scanVars, resolverVars, bridgeVars>>

-----------------------------------------------------------------------------
(* Bridge (src/momo/data/bridge.py): execute_norgate_code under its retry     *)
(* decorator.  The stdout of the subprocess is the sequence of its lines, a   *)
(* blank line being "", and its stderr the set of the patterns it contains.   *)

MaxAttempts == 3        \* stop_after_attempt(3)

BridgeTimeouts == {30}

StdoutLines == {"", "INFO: Processing", "4", "[1, 2]"}

StderrPatterns == {"NDU is not running", "ModuleNotFoundError", "norgatedata"}

\* what subprocess.run does: it raises FileNotFoundError, TimeoutExpired or
\* another OSError (ConnectionError is one), or it returns a CompletedProcess
SubprocessResults ==
    {[kind |-> k, returncode |-> 0, stdout |-> <<>>, stderr |-> {}] :
        k \in {"FileNotFoundError", "TimeoutExpired", "OSError", "ConnectionError"}}
    \cup {[kind |-> "completed", returncode |-> rc, stdout |-> o, stderr |-> e] :
            rc \in {0, 1}, o \in SeqsUpTo(StdoutLines, MaxLines), e \in SUBSET StderrPatterns}

RECURSIVE strip(_)
\* result.stdout.strip(): no blank line is left at either end
strip(stdout) ==
    IF stdout = <<>> THEN <<>>
    ELSE IF Head(stdout) = "" THEN strip(Tail(stdout))
    ELSE IF stdout[Len(stdout)] = "" THEN strip(SubSeq(stdout, 1, Len(stdout) - 1))
    ELSE stdout

\* .split("\n"): the lines; the empty text splits into one empty line
split(stdout) == IF stdout = <<>> THEN <<"">> ELSE stdout

\* the line parsed, with output_lines[0] in place of output_lines[-1]
json_line_first(stdout) ==
    LET output_lines == split(strip(stdout))
    IN  output_lines[1]

\* json_line = output_lines[-1]
json_line(stdout) ==
    LET output_lines == split(strip(stdout))
    IN  output_lines[Len(output_lines)]

\* json.loads: the value of a JSON text, or JSONDecodeError
json_loads(text) ==
    IF text = "4" THEN [ok |-> TRUE, value |-> [type |-> "int", items |-> <<4>>]]
    ELSE IF text = "[1, 2]" THEN [ok |-> TRUE, value |-> [type |-> "list", items |-> <<1, 2>>]]
    ELSE [ok |-> FALSE, value |-> [type |-> "none", items |-> <<>>]]

NoValue == [type |-> "none", items |-> <<>>]

Returns(value) == [raised |-> FALSE, value |-> value, error |-> "none", branch |-> "none"]
Raises(cls, branch) == [raised |-> TRUE, value |-> NoValue, error |-> cls, branch |-> branch]

\* one run of the function body on what subprocess.run did
Attempt(result) ==
    IF result.kind = "FileNotFoundError"
    THEN Raises("WindowsPythonNotFoundError", "windows_python_not_found")
    ELSE IF result.kind = "TimeoutExpired"
    THEN Raises("NorgateBridgeError", "bridge_timeout")
    ELSE IF result.kind # "completed"
    THEN Raises(result.kind, "uncaught")
    ELSE IF result.returncode # 0
    THEN IF "NDU is not running" \in result.stderr
         THEN Raises("NDUNotRunningError", "ndu_not_running")
         ELSE IF "ModuleNotFoundError" \in result.stderr /\ "norgatedata" \in result.stderr
         THEN Raises("NorgateBridgeError", "norgatedata_not_installed")
         ELSE Raises("NorgateBridgeError", "bridge_execution_failed")
    ELSE LET parsed_result == json_loads(json_line(result.stdout))
         IN  IF parsed_result.ok
             THEN Returns(parsed_result.value)
             ELSE Raises("NorgateBridgeError", "json_parse_failed")

\* a retry on every exception
RetriedAlways(outcome) == outcome.raised

\* retry_if_exception_type((ConnectionError, OSError)); none of the bridge's own
\* error classes derives from OSError
Retried(outcome) ==
    outcome.raised /\ outcome.error \in {"ConnectionError", "OSError"}

NoBridgeOutcome == Returns(NoValue)

\* the call of execute_norgate_code
ExecuteCall ==
    /\ b_pc = "idle"
    /\ \E timeout \in BridgeTimeouts : b_args' = [timeout |-> timeout]
    /\ b_pc' = "running"
    /\ b_runs' = <<>>
    /\ UNCHANGED <<b_out, scanVars, resolverVars, loaderVars>>

\* one attempt: the body runs once; the decorator starts another attempt after
\* a retried exception unless this was the last attempt, whose exception is
\* re-raised
ExecuteAttempt ==
    /\ b_pc = "running"
    /\ \E result \in SubprocessResults :
          LET outcome == Attempt(result)
              attempt_number == Len(b_runs) + 1
          IN  /\ b_runs' = Append(b_runs, result)
              /\ IF Retried(outcome) /\ attempt_number < MaxAttempts
                 THEN UNCHANGED <<b_pc, b_out>>
                 ELSE /\ b_pc' = (IF outcome.raised THEN "raised" ELSE "returned")
                      /\ b_out' = outcome
    /\ UNCHANGED <<b_args, scanVars, resolverVars, loaderVars>>

-----------------------------------------------------------------------------
(* Specifications *)

Init ==
    /\ prices_df = [multi_index |-> TRUE, rows |-> <<>>]
    /\ ret = NoCall
    /\ r_pc = "idle"
    /\ r_args = [index_name |-> "", target_date |-> 0, symbols_given |-> FALSE, timeout |-> 0]
    /\ symbols = <<>>
    /\ r_idx = 1
    /\ constituents = <<>>
    /\ lookups = <<>>
    /\ responses = <<>>
    /\ r_out = NoOutcome
    /\ watchlist_calls = <<>>
    /\ cache_file = <<>>
    /\ l_pc = "idle"
    /\ l_args = [symbols |-> <<>>, force_refresh |-> FALSE, fetch_price_data |-> "bridge"]
    /\ l_idx = 1
    /\ symbol_dfs = <<>>
    /\ failed_symbols = <<>>
    /\ load_calls = <<>>
    /\ fetch_calls = <<>>
    /\ save_calls = <<>>
    /\ l_out = NoResult
    /\ l_prev = NoPrevious
    /\ b_pc = "idle"
    /\ b_args = [timeout |-> 0]
    /\ b_runs = <<>>
    /\ b_out = NoBridgeOutcome

NextMissing == LoadMissingRow \/ Call_check_missing_values
NextGaps == LoadGapRow \/ Call_check_date_gaps
NextAdjust == LoadAdjustRow \/ Call_check_adjustment_consistency
NextDelist == LoadDelistRow \/ Call_check_delisting_status
NextValidate == LoadValidateRow \/ Call_validate_prices
NextSummary == Call_summary_message
NextPipeline ==
    \/ LoadValidateRow
    \/ ResetIndex
    \/ Call_check_missing_values
    \/ Call_check_date_gaps
    \/ Call_check_adjustment_consistency
    \/ Call_check_delisting_status
    \/ Call_validate_prices
NextLoad ==
    \/ SavePricesEarlier
    \/ LoadUniverseCall
    \/ LoadUniverseFetch
    \/ LoadUniverseFinish
    \/ LoadUniverseNext
NextBridge == ExecuteCall \/ ExecuteAttempt
NextResolve == ResolveCall \/ ResolveCallWatchlist \/ ResolveLookup \/ ResolveReturn

SpecMissing == Init /\ [][NextMissing]_vars
SpecGaps == Init /\ [][NextGaps]_vars
SpecAdjust == Init /\ [][NextAdjust]_vars
SpecDelist == Init /\ [][NextDelist]_vars
SpecValidate == Init /\ [][NextValidate]_vars
SpecPipeline == Init /\ [][NextPipeline]_vars
SpecSummary == Init /\ [][NextSummary]_vars
SpecLoad == Init /\ [][NextLoad]_vars
SpecResolve == Init /\ [][NextResolve]_vars
SpecBridge == Init /\ [][NextBridge]_vars

-----------------------------------------------------------------------------
(* Vocabulary of the properties, defined on the frame a call received       *)
(* (ret.df) without the scanners' own operators.                            *)

SymbolsOf(df) == {r.symbol : r \in Range(df.rows)}
DatesOf(df, t) == {r.date : r \in {x \in Range(df.rows) : x.symbol = t}}
RowAt(df, t, d) == CHOOSE r \in Range(df.rows) : r.symbol = t /\ r.date = d

\* d1 and d2 are consecutive dates of t's sorted distinct dates
Adjacent(df, t, d1, d2) ==
    /\ d1 \in DatesOf(df, t) /\ d2 \in DatesOf(df, t) /\ d1 < d2
    /\ ~\E d \in DatesOf(df, t) : d1 < d /\ d < d2

\* the Monday-to-Friday days strictly between two dates
BusinessDaysBetween(d1, d2) == Cardinality({d \in (d1 + 1)..(d2 - 1) : d % 7 \in 0..4})

\* the pair is one of the gaps reported for t
Recorded(out, t, d1, d2) == t \in DOMAIN out /\ <<d1, d2>> \in Range(out[t])

\* the last observed date of t
LastObserved(df, t) == CHOOSE d \in DatesOf(df, t) : \A e \in DatesOf(df, t) : e <= d

\* nulls of t in the four core price fields, one per (row, field)
CoreNulls(df, t) ==
    Cardinality({c \in (DOMAIN df.rows) \X {"open", "high", "low", "close"} :
                    df.rows[c[1]].symbol = t /\ df.rows[c[1]][c[2]] = NaN})

HasNegativeClose(df, t) ==
    \E r \in Range(df.rows) : r.symbol = t /\ r.close # NaN /\ r.close < 0

\* a row of t, not its first in date order, whose close differs from the close
\* of the row before it by more than threshold_pct of that close, with a
\* dividend of exactly 0 on its own date
QualifyingJump(df, t, threshold_pct) ==
    \E d1 \in DatesOf(df, t), d2 \in DatesOf(df, t) :
        /\ Adjacent(df, t, d1, d2)
        /\ LET prev == RowAt(df, t, d1).close
               cur == RowAt(df, t, d2).close
           IN  /\ prev # NaN /\ cur # NaN /\ prev > 0
               /\ Abs(cur - prev) * threshold_pct.den > threshold_pct.num * prev
        /\ RowAt(df, t, d2).dividend = 0

-----------------------------------------------------------------------------
(* Properties *)

\* C1: in every report of validate_prices, for either value of check_delistings,
\* is_valid is true exactly when missing_data_counts, date_gaps and
\* adjustment_issues are all empty, whatever delisting_events holds.
C1_IsValidIffNoIssues ==
    ret.op = "validate_prices" =>
        (ret.out.is_valid <=>
            /\ DOMAIN ret.out.missing_data_counts = {}
            /\ DOMAIN ret.out.date_gaps = {}
            /\ ret.out.adjustment_issues = <<>>)

\* a report with delistings checked that lists a delisting and is valid
C1_Witness ==
    /\ ret.op = "validate_prices"
    /\ ret.arg = TRUE
    /\ ret.out.is_valid
    /\ DOMAIN ret.out.delisting_events # {}

\* C2: a consecutive pair of a symbol's dates is recorded as a gap exactly when
\* the number of Monday-to-Friday days strictly between the two dates is at
\* least threshold_days.
C2_GapIffBusinessDaysBetween ==
    ret.op = "_check_date_gaps" =>
        \A t \in SymbolsOf(ret.df) : \A d1 \in DatesOf(ret.df, t), d2 \in DatesOf(ret.df, t) :
            Adjacent(ret.df, t, d1, d2) =>
                (Recorded(ret.out, t, d1, d2) <=> BusinessDaysBetween(d1, d2) >= ret.arg)

\* C3: for every threshold_days >= 1, a Friday followed by the next Monday is
\* never recorded as a gap.
C3_WeekendNeverFlagged ==
    (ret.op = "_check_date_gaps" /\ ret.arg >= 1) =>
        \A t \in SymbolsOf(ret.df) : \A d1 \in DatesOf(ret.df, t) :
            (d1 % 7 = 4 /\ Adjacent(ret.df, t, d1, d1 + 3)) =>
                ~Recorded(ret.out, t, d1, d1 + 3)

\* C4: a symbol with no negative close is flagged exactly when some row other
\* than its first has a day-over-day change of close strictly above
\* threshold_pct and a dividend of exactly 0 on that date.
C4_FlaggedIffUnexplainedJump ==
    ret.op = "_check_adjustment_consistency" =>
        \A t \in SymbolsOf(ret.df) :
            ~HasNegativeClose(ret.df, t) =>
                (t \in Range(ret.out) <=> QualifyingJump(ret.df, t, ret.arg))

\* C5: a symbol with a negative close is always in the result, and a symbol
\* with no negative close and no qualifying jump never is.
C5_NegativeAlwaysOthersNever ==
    ret.op = "_check_adjustment_consistency" =>
        \A t \in SymbolsOf(ret.df) :
            /\ HasNegativeClose(ret.df, t) => t \in Range(ret.out)
            /\ (~HasNegativeClose(ret.df, t) /\ ~QualifyingJump(ret.df, t, ret.arg))
                  => t \notin Range(ret.out)

\* C6: a symbol is reported, mapped to its last observed date, exactly when
\* query_end_date minus that date is strictly greater than threshold_days.
C6_DelistedIffBeyondThreshold ==
    ret.op = "check_delisting_status" =>
        LET horizon ==
                IF ret.arg.query_end_date = None
                THEN CHOOSE d \in {r.date : r \in Range(ret.df.rows)} :
                        \A r \in Range(ret.df.rows) : r.date <= d
                ELSE ret.arg.query_end_date
        IN  /\ DOMAIN ret.out \subseteq SymbolsOf(ret.df)
            /\ \A t \in SymbolsOf(ret.df) :
                  /\ t \in DOMAIN ret.out <=>
                        horizon - LastObserved(ret.df, t) > ret.arg.threshold_days
                  /\ t \in DOMAIN ret.out => ret.out[t] = LastObserved(ret.df, t)

\* one symbol exactly threshold_days behind the horizon and left out, another
\* threshold_days + 1 behind and reported
C6_Witness ==
    /\ ret.op = "check_delisting_status"
    /\ ret.arg.query_end_date # None
    /\ \E t1 \in SymbolsOf(ret.df), t2 \in SymbolsOf(ret.df) :
          /\ ret.arg.query_end_date - LastObserved(ret.df, t1) = ret.arg.threshold_days
          /\ t1 \notin DOMAIN ret.out
          /\ ret.arg.query_end_date - LastObserved(ret.df, t2) = ret.arg.threshold_days + 1
          /\ t2 \in DOMAIN ret.out

\* C7: a symbol is mapped to n exactly when n >= 1 is the number of nulls in its
\* open, high, low and close fields; nulls in the other columns count nothing.
C7_MissingCountsExact ==
    ret.op = "_check_missing_values" =>
        /\ DOMAIN ret.out \subseteq SymbolsOf(ret.df)
        /\ \A t \in SymbolsOf(ret.df) :
              /\ t \in DOMAIN ret.out <=> CoreNulls(ret.df, t) >= 1
              /\ t \in DOMAIN ret.out => ret.out[t] = CoreNulls(ret.df, t)

\* one symbol with nulls over several rows and fields, the other with a null
\* volume only and absent from the result
C7_Witness ==
    /\ ret.op = "_check_missing_values"
    /\ "AAPL" \in DOMAIN ret.out /\ ret.out["AAPL"] >= 3
    /\ Cardinality(DatesOf(ret.df, "AAPL")) >= 2
    /\ "MSFT" \in SymbolsOf(ret.df) /\ "MSFT" \notin DOMAIN ret.out
    /\ \E r \in Range(ret.df.rows) : r.symbol = "MSFT" /\ r.volume = NaN

\* C8: once a lookup has raised the timeout error, the call has raised that
\* same error, no later candidate has been looked up and no list is returned.
C8_TimeoutPropagates ==
    \A i \in DOMAIN responses :
        (~responses[i].ok /\ responses[i].error.kind = "timeout") =>
            /\ r_pc = "raised"
            /\ r_out.raised /\ r_out.error = responses[i].error
            /\ r_out.value = <<>>
            /\ Len(lookups) = i

\* the first of two candidates timed out
C8_Witness ==
    /\ Len(symbols) = 2
    /\ Len(responses) = 1
    /\ ~responses[1].ok /\ responses[1].error.kind = "timeout"
    /\ r_pc = "raised"

IsInvalidReference(resp) == ~resp.ok /\ resp.error.kind = "invalid_reference"

RECURSIVE MembersAmong(_, _, _)
\* the candidates, in order, whose lookup returned a series with a truthy flag
MembersAmong(syms, resps, target_date) ==
    IF syms = <<>> THEN <<>>
    ELSE LET rest == MembersAmong(Tail(syms), Tail(resps), target_date)
             r == Head(resps)
         IN  IF r.ok /\ r.series # <<>> /\ IsMember(r.series, target_date)
             THEN <<Head(syms)>> \o rest
             ELSE rest

C10_TransportErrorsSurface ==
    \A i \in DOMAIN responses :
        (~responses[i].ok /\ ~IsInvalidReference(responses[i])) =>
            /\ r_pc = "raised"
            /\ r_out.raised /\ r_out.error = responses[i].error
            /\ Len(lookups) = i

\* C11 (as stated): no invalid-symbol or invalid-index error of any remote
\* lookup, the watchlist lookup of a call with symbols=None included, is ever
\* raised to the caller.
C11_InvalidReferenceNeverRaised ==
    ~(r_out.raised /\ r_out.error.kind = "invalid_reference")

\* C11 (amended): an invalid-symbol or invalid-index error of a per-symbol
\* membership lookup never ends the call and the loop goes on to the next
\* candidate; an invalid-reference error reaches the caller only from the
\* watchlist lookup of a call with symbols=None, before any membership lookup.
C11_InvalidReferenceRaisedOnlyByWatchlist ==
    /\ \A i \in DOMAIN responses :
          IsInvalidReference(responses[i]) =>
              /\ r_idx = i + 1 \/ Len(responses) > i
              /\ r_pc = "raised" => (Len(responses) > i /\ r_out.error = responses[Len(responses)].error)
    /\ (r_out.raised /\ r_out.error.kind = "invalid_reference") =>
          /\ ~r_args.symbols_given
          /\ lookups = <<>> /\ responses = <<>>

\* a call with symbols=None whose watchlist lookup raised an unknown-index error
C11_Witness ==
    /\ r_pc = "raised"
    /\ ~r_args.symbols_given
    /\ r_out.raised /\ r_out.error.kind = "invalid_reference"
    /\ lookups = <<>>

\* the entry of a series that decides membership: the one dated target_date,
\* else the latest one dated before it, else the first of the series
DecidingEntry(series, target_date) ==
    IF \E i \in DOMAIN series : series[i].date = target_date
    THEN CHOOSE i \in DOMAIN series : series[i].date = target_date
    ELSE IF \E i \in DOMAIN series : series[i].date < target_date
    THEN CHOOSE i \in DOMAIN series :
            /\ series[i].date < target_date
            /\ \A j \in DOMAIN series : series[j].date < target_date => series[j].date <= series[i].date
    ELSE 1

\* the i-th candidate is a member by its deciding entry
Decided(i) ==
    /\ responses[i].ok
    /\ responses[i].series # <<>>
    /\ responses[i].series[DecidingEntry(responses[i].series, r_args.target_date)].index_constituent = 1

RECURSIVE DecidedMembers(_)
\* the first n candidates that are members by their deciding entry, in order
DecidedMembers(n) ==
    IF n = 0 THEN <<>>
    ELSE IF Decided(n) THEN Append(DecidedMembers(n - 1), symbols[n])
    ELSE DecidedMembers(n - 1)

\* C12: after every lookup that returned a series, the members collected so far
\* are exactly the candidates whose deciding entry (the entry dated target_date,
\* else the most recent earlier entry, else the first entry) has a truthy flag;
\* an empty series adds nothing and the loop goes on with the next candidate.
C12_MembershipFromDecidingEntry ==
    /\ constituents = DecidedMembers(Len(responses))
    /\ \A i \in DOMAIN responses :
          (responses[i].ok /\ responses[i].series = <<>>) =>
              /\ r_idx = i + 1 \/ Len(responses) > i
              /\ r_pc = "raised" => Len(responses) > i
    /\ r_pc = "returned" => r_out.value = DecidedMembers(Len(symbols))

\* a returned call whose first candidate had an empty series and whose second
\* was decided by the later of two entries before the target date, the two
\* entries carrying different flags
C12_Witness ==
    /\ r_pc = "returned"
    /\ Len(symbols) = 2
    /\ responses[1].ok /\ responses[1].series = <<>>
    /\ responses[2].ok /\ Len(responses[2].series) = 2
    /\ responses[2].series[2].date < r_args.target_date
    /\ responses[2].series[1].index_constituent = 0
    /\ responses[2].series[2].index_constituent = 1
    /\ r_out.value = <<symbols[2]>>

\* the length of the text composed from the counts of a call, before any cut:
\* the heading, each clause's fixed words and digits, and the separators
ComposedLength(counts) ==
    LET parts == <<IF counts.missing # <<>>
                   THEN Len(counts.missing[1]) + Len(counts.missing[2]) + 33 ELSE 0,
                   IF counts.gaps # <<>>
                   THEN Len(counts.gaps[1]) + Len(counts.gaps[2]) + 28 ELSE 0,
                   IF counts.adjustment # <<>> THEN Len(counts.adjustment[1]) + 35 ELSE 0,
                   IF counts.delisted # <<>> THEN Len(counts.delisted[1]) + 9 ELSE 0>>
        k == Cardinality({i \in 1..4 : parts[i] # 0})
    IN  25 + parts[1] + parts[2] + parts[3] + parts[4] + 2 * (k - 1)

AnyIssue(counts) ==
    counts.missing # <<>> \/ counts.gaps # <<>> \/ counts.adjustment # <<>> \/ counts.delisted # <<>>

RECURSIVE Total(_, _)
\* the sum of f over the keys S
Total(f, S) ==
    IF S = {} THEN 0
    ELSE LET k == CHOOSE k \in S : TRUE IN f[k] + Total(f, S \ {k})

\* the clauses of a report, one per populated container, in the order missing,
\* gaps, adjustment, delisting
ExpectedClauses(out) ==
    LET m == out.missing_data_counts
        g == out.date_gaps
        a == out.adjustment_issues
        d == out.delisting_events
        all == <<IF DOMAIN m = {} THEN ""
                 ELSE ToString(Cardinality(DOMAIN m)) \o " ticker(s) with "
                        \o ToString(Total(m, DOMAIN m)) \o " missing value(s)",
                 IF DOMAIN g = {} THEN ""
                 ELSE ToString(Cardinality(DOMAIN g)) \o " ticker(s) with "
                        \o ToString(Total([t \in DOMAIN g |-> Len(g[t])], DOMAIN g))
                        \o " date gap(s)",
                 IF a = <<>> THEN ""
                 ELSE ToString(Len(a)) \o " ticker(s) with adjustment issue(s)",
                 IF DOMAIN d = {} THEN ""
                 ELSE ToString(Cardinality(DOMAIN d)) \o " delisted">>
    IN  SelectSeq(all, LAMBDA c : c # "")

\* C14: the summary message of a report is the no-issues sentence exactly when
\* missing, gaps, adjustment and delisting are all empty; otherwise it is the
\* heading followed by one clause per non-empty category, joined by "; ", in
\* the order missing, gaps, adjustment, delisting, with the ticker counts and,
\* for missing and gaps, the totals.
C14_SummaryClauses ==
    ret.op = "validate_prices" =>
        LET clauses == ExpectedClauses(ret.out)
            n == Len(clauses)
            text == [i \in 0..n |->
                        IF i = 0 THEN "Validation found issues: "
                        ELSE IF i = 1 THEN clauses[1]
                        ELSE "; " \o clauses[i]]
            joined == text[0] \o (IF n >= 1 THEN text[1] ELSE "") \o (IF n >= 2 THEN text[2] ELSE "")
                        \o (IF n >= 3 THEN text[3] ELSE "") \o (IF n >= 4 THEN text[4] ELSE "")
            noIssues == "Validation complete: " \o ToString(ret.out.total_tickers)
                            \o " tickers, no issues detected"
        IN  /\ ret.out.summary_message = noIssues <=> n = 0
            /\ n > 0 => ret.out.summary_message = joined

\* a report with delistings checked in which all four categories are populated
C14_Witness ==
    /\ ret.op = "validate_prices"
    /\ DOMAIN ret.out.missing_data_counts # {}
    /\ DOMAIN ret.out.date_gaps # {}
    /\ ret.out.adjustment_issues # <<>>
    /\ DOMAIN ret.out.delisting_events # {}
    /\ Len(ExpectedClauses(ret.out)) = 4

\* the symbols of a dataset's (date, symbol) key; none without that key
KeySymbols(df) == IF df.multi_index THEN SymbolsOf(df) ELSE {}

\* C15: in every report, the keys of missing_data_counts, date_gaps and
\* delisting_events and the members of adjustment_issues are symbols of the
\* input dataset, and total_tickers is the number of its distinct symbols.
C15_ReportSymbolsFromDataset ==
    ret.op = "validate_prices" =>
        /\ DOMAIN ret.out.missing_data_counts \subseteq KeySymbols(ret.df)
        /\ DOMAIN ret.out.date_gaps \subseteq KeySymbols(ret.df)
        /\ DOMAIN ret.out.delisting_events \subseteq KeySymbols(ret.df)
        /\ Range(ret.out.adjustment_issues) \subseteq KeySymbols(ret.df)
        /\ ret.out.total_tickers = Cardinality(KeySymbols(ret.df))

\* a report on three rows of two symbols, one symbol with issues and the other
\* listed as delisted
C15_Witness ==
    /\ ret.op = "validate_prices"
    /\ Len(ret.df.rows) = 3
    /\ ret.out.total_tickers = 2
    /\ DOMAIN ret.out.missing_data_counts = {"AAPL"}
    /\ DOMAIN ret.out.date_gaps = {"AAPL"}
    /\ DOMAIN ret.out.delisting_events = {"MSFT"}

\* C16: after validate_prices or any of the four scanners has returned, the
\* caller's frame has the rows, in the order, with the key structure and the
\* values it had when the call was made.
C16_InputUnchanged ==
    ret.op \in {"validate_prices", "_check_missing_values", "_check_date_gaps",
                "_check_adjustment_consistency", "check_delisting_status"} =>
        /\ prices_df.multi_index = ret.df.multi_index
        /\ Len(prices_df.rows) = Len(ret.df.rows)
        /\ \A i \in DOMAIN ret.df.rows : prices_df.rows[i] = ret.df.rows[i]

\* a call of the adjustment scanner, which sorts each symbol's rows by date, on
\* a frame whose rows are not in date order
C16_Witness ==
    /\ ret.op = "_check_adjustment_consistency"
    /\ Len(ret.df.rows) = 3
    /\ ret.df.multi_index
    /\ ret.df.rows[1].symbol = ret.df.rows[2].symbol
    /\ ret.df.rows[1].date > ret.df.rows[2].date
    /\ prices_df.rows[1].date > prices_df.rows[2].date

\* C18: delisting_events is empty when check_delistings is false; when it is
\* true it maps exactly the symbols whose last date lies more than 30 days
\* before the dataset's maximum date to that last date.  The results of the
\* three other scanners are in the report in both cases.
C18_DelistingsOnlyOnRequest ==
    ret.op = "validate_prices" =>
        LET df == ret.df
            horizon == CHOOSE d \in {r.date : r \in Range(df.rows)} :
                            \A r \in Range(df.rows) : r.date <= d
            expected == {t \in KeySymbols(df) : horizon - LastObserved(df, t) > 30}
        IN  /\ ~ret.arg => DOMAIN ret.out.delisting_events = {}
            /\ ret.arg =>
                  /\ DOMAIN ret.out.delisting_events = expected
                  /\ \A t \in expected : ret.out.delisting_events[t] = LastObserved(df, t)
            /\ ret.out.missing_data_counts = _check_missing_values(df)
            /\ ret.out.date_gaps = _check_date_gaps(df, 10)
            /\ ret.out.adjustment_issues = _check_adjustment_consistency(df, [num |-> 2, den |-> 5])

\* a report with check_delistings false on a frame in which one symbol stops
\* 45 days before the other: nothing is listed, the gap of the other symbol is
C18_Witness ==
    /\ ret.op = "validate_prices"
    /\ ret.arg = FALSE
    /\ ret.df.multi_index
    /\ \E t \in SymbolsOf(ret.df) : LastObserved(ret.df, t) = 0
    /\ \E t \in SymbolsOf(ret.df) : LastObserved(ret.df, t) = 45
    /\ DOMAIN ret.out.delisting_events = {}
    /\ DOMAIN ret.out.date_gaps # {}

LoadDone == l_pc \in {"returned", "raised"}

\* the call read the cache and the file was there
CacheHit == load_calls # <<>> /\ load_calls[1] # <<>>

\* the symbols passed to fetch_price_data, in call order
FetchedSymbols == [i \in DOMAIN fetch_calls |-> fetch_calls[i].symbol]

\* the i-th fetch raised an error that is none of the three bridge error classes
Escaped(i) ==
    /\ ~fetch_calls[i].outcome.ok
    /\ fetch_calls[i].outcome.error.cls
          \notin {"NDUNotRunningError", "WindowsPythonNotFoundError", "NorgateBridgeError"}

\* C20 (as stated): load_universe reads the cache exactly when force_refresh is
\* false; on a hit it returns the cached data, fetches nothing and saves
\* nothing; on a miss or with force_refresh it fetches each symbol once, and
\* with force_refresh it reads no cache and saves to the cache once.
C20_CacheFirstAsStated ==
    LoadDone =>
        /\ Len(load_calls) = (IF l_args.force_refresh THEN 0 ELSE 1)
        /\ IF CacheHit
           THEN /\ ~l_out.raised /\ l_out.value = load_calls[1]
                /\ fetch_calls = <<>>
                /\ save_calls = <<>>
           ELSE FetchedSymbols = l_args.symbols
        /\ l_args.force_refresh =>
              /\ FetchedSymbols = l_args.symbols
              /\ Len(save_calls) = 1

\* C20 (amended): load_universe reads the cache exactly when force_refresh is
\* false; on a hit it returns the cached data, leaves the file as it is,
\* fetches nothing and saves nothing; on a miss or with force_refresh it
\* fetches the symbols in order, once each, stopping only at a fetch that
\* raises an error other than a bridge error; save_prices is called once when
\* every symbol was attempted and at least one fetch succeeded, and not at all
\* otherwise.
C20_CacheFirst ==
    LoadDone =>
        /\ Len(load_calls) = (IF l_args.force_refresh THEN 0 ELSE 1)
        /\ IF CacheHit
           THEN /\ ~l_out.raised /\ l_out.value = load_calls[1]
                /\ cache_file = load_calls[1]
                /\ fetch_calls = <<>>
                /\ save_calls = <<>>
           ELSE /\ FetchedSymbols = SubSeq(l_args.symbols, 1, Len(fetch_calls))
                /\ \A i \in DOMAIN fetch_calls : Escaped(i) => i = Len(fetch_calls)
                /\ Len(fetch_calls) < Len(l_args.symbols) =>
                      (fetch_calls # <<>> /\ Escaped(Len(fetch_calls)))
                /\ Len(save_calls) =
                      (IF /\ \A i \in DOMAIN fetch_calls : ~Escaped(i)
                          /\ \E i \in DOMAIN fetch_calls : fetch_calls[i].outcome.ok
                       THEN 1 ELSE 0)

\* force_refresh with a file in the cache: the cache was not read, the first
\* of two symbols failed with a bridge error, the second was fetched, and
\* save_prices was called once
C20_Witness ==
    /\ LoadDone
    /\ l_args.force_refresh
    /\ cache_file # <<>>
    /\ load_calls = <<>>
    /\ Len(l_args.symbols) = 2
    /\ Len(fetch_calls) = 2
    /\ ~fetch_calls[1].outcome.ok
    /\ fetch_calls[2].outcome.ok
    /\ Len(save_calls) = 1

\* the symbols whose rows a loader frame holds
FrameSymbols(df) == {df.parts[i].symbol : i \in DOMAIN df.parts}

\* the symbols whose fetch returned a frame
SucceededSymbols == {fetch_calls[i].symbol : i \in {j \in DOMAIN fetch_calls : fetch_calls[j].outcome.ok}}

\* the call went to the bridge (cache miss or force_refresh) and every fetch
\* returned a frame or raised one of the three bridge error classes
FetchedThrough ==
    /\ LoadDone
    /\ ~CacheHit
    /\ \A i \in DOMAIN fetch_calls : ~Escaped(i)

\* C21: on a cache miss load_universe attempts every requested symbol in
\* order, also after bridge errors; with at least one success it raises
\* nothing and both the returned frame and the frame passed to save_prices
\* hold exactly the fetched symbols; with no success it raises ValueError and
\* save_prices is not called.
C21_PartialFailureTolerated ==
    FetchedThrough =>
        /\ FetchedSymbols = l_args.symbols
        /\ IF SucceededSymbols # {}
           THEN /\ ~l_out.raised
                /\ Len(l_out.value) = 1
                /\ FrameSymbols(l_out.value[1]) = SucceededSymbols
                /\ Len(save_calls) = 1
                /\ FrameSymbols(save_calls[1]) = SucceededSymbols
           ELSE /\ l_out.raised
                /\ l_out.error = "ValueError"
                /\ save_calls = <<>>

\* C24: on a cache miss where at least one symbol is fetched by
\* bridge.fetch_price_data, load_universe saves the combined frame and returns
\* it without raising, keyed by (date, symbol) and with the seven columns
\* open, high, low, close, volume, unadjusted_close and dividend.
C24_BridgeDataSavedAndReturned ==
    (FetchedThrough /\ l_args.fetch_price_data = "bridge" /\ SucceededSymbols # {}) =>
        /\ ~l_out.raised
        /\ Len(save_calls) = 1
        /\ l_out.value = <<save_calls[1]>>
        /\ cache_file = <<save_calls[1]>>
        /\ save_calls[1].index = <<"date", "symbol">>
        /\ save_calls[1].columns =
              {"open", "high", "low", "close", "volume", "unadjusted_close", "dividend"}

\* the call before this one lost symbols to bridge errors and cached the rest
PartialResultCached ==
    /\ l_prev.called
    /\ l_prev.failed # <<>>
    /\ l_prev.saved # <<>>
    /\ l_prev.value = <<l_prev.saved[1]>>

\* C25: a load_universe call with force_refresh false that follows a call in
\* which some symbols failed and the rest was cached returns the frame that
\* call cached and returned, and fetches nothing.
C25_CachedPartialResultServed ==
    (LoadDone /\ PartialResultCached /\ ~l_args.force_refresh) =>
        /\ ~l_out.raised
        /\ l_out.value = <<l_prev.saved[1]>>
        /\ l_out.value = l_prev.value
        /\ fetch_calls = <<>>
        /\ save_calls = <<>>

\* the second call asks for the two symbols of the first, one of which failed
\* then, and gets the one-symbol frame of the cache without a fetch
C25_Witness ==
    /\ LoadDone
    /\ PartialResultCached
    /\ ~l_args.force_refresh
    /\ Len(l_args.symbols) = 2
    /\ l_args.symbols = l_prev.symbols
    /\ \E i \in DOMAIN l_args.symbols : l_args.symbols[i] \in Range(l_prev.failed)
    /\ ~l_out.raised
    /\ Cardinality(FrameSymbols(l_out.value[1])) = 1
    /\ fetch_calls = <<>>

\* execute_norgate_code has returned or raised
BridgeDone == b_pc \in {"returned", "raised"}

\* what the last subprocess.run of the call did
LastRun == b_runs[Len(b_runs)]

\* the last line of a stdout that is not blank, "" when every line is blank
LastPrinted(stdout) ==
    LET printed == SelectSeq(stdout, LAMBDA line : line # "")
    IN  IF printed = <<>> THEN "" ELSE printed[Len(printed)]

\* the JSON texts among the lines and the values they denote
Decoded ==
    [text \in {"4", "[1, 2]"} |->
        IF text = "4" THEN [type |-> "int", items |-> <<4>>]
        ELSE [type |-> "list", items |-> <<1, 2>>]]

\* C22: a finished call of execute_norgate_code has one outcome, fixed by what
\* its last subprocess run did: no interpreter gives
\* WindowsPythonNotFoundError; a timeout gives NorgateBridgeError; a non-zero
\* exit gives NDUNotRunningError when stderr says NDU is not running, whatever
\* else stderr holds, and NorgateBridgeError otherwise; a zero exit gives the
\* value of the JSON text on the last line of stdout, or NorgateBridgeError
\* when that line is no JSON text.
C22_OutcomeFixedBySubprocess ==
    BridgeDone =>
        LET r == LastRun
        IN  /\ b_out.raised <=> b_pc = "raised"
            /\ b_out.raised <=> b_out.error # "none"
            /\ b_out.raised => b_out.value = NoValue
            /\ r.kind = "FileNotFoundError" =>
                  b_out.error = "WindowsPythonNotFoundError"
            /\ r.kind = "TimeoutExpired" =>
                  b_out.error = "NorgateBridgeError"
            /\ (r.kind = "completed" /\ r.returncode # 0) =>
                  b_out.error = (IF "NDU is not running" \in r.stderr
                                 THEN "NDUNotRunningError" ELSE "NorgateBridgeError")
            /\ (r.kind = "completed" /\ r.returncode = 0) =>
                  IF LastPrinted(r.stdout) \in DOMAIN Decoded
                  THEN ~b_out.raised /\ b_out.value = Decoded[LastPrinted(r.stdout)]
                  ELSE b_out.error = "NorgateBridgeError"

\* a zero exit whose stdout is a JSON number, then an INFO line and the JSON
\* list, with a stderr that holds the NDU pattern: the list is returned
C22_Witness ==
    /\ BridgeDone
    /\ LastRun.kind = "completed"
    /\ LastRun.returncode = 0
    /\ LastRun.stdout = <<"4", "[1, 2]">>
    /\ "NDU is not running" \in LastRun.stderr
    /\ ~b_out.raised
    /\ b_out.value.items = <<1, 2>>

\* C28: one call of execute_norgate_code runs the subprocess at most 3 times,
\* and once when the first run returns output, times out, exits non-zero or
\* finds no interpreter; every run but the last of a call raised an OSError or
\* ConnectionError that is not a missing interpreter.
C28_AtMostThreeAttempts ==
    /\ Len(b_runs) <= 3
    /\ BridgeDone =>
          /\ Len(b_runs) >= 1
          /\ b_runs[1].kind \in {"completed", "TimeoutExpired", "FileNotFoundError"} =>
                Len(b_runs) = 1
          /\ \A i \in 1..(Len(b_runs) - 1) : b_runs[i].kind \in {"OSError", "ConnectionError"}
          /\ (Len(b_runs) < 3) => LastRun.kind \notin {"OSError", "ConnectionError"}

\* two runs that raised OSError and a third whose output is returned
C28_Witness ==
    /\ b_pc = "returned"
    /\ Len(b_runs) = 3
    /\ b_runs[1].kind = "OSError"
    /\ b_runs[2].kind = "OSError"
    /\ b_runs[3].kind = "completed"

\* C23: the membership lookups issued so far are those of the first candidates,
\* one per entry of the candidate list and in its order, each with the call's
\* index name and timeout and the window from target_date - 5 to
\* target_date + 5; a call that returned has issued one for every entry.  The
\* watchlist lookup is issued once, before any membership lookup, by a call
\* without a symbol list, and never by a call with one.
C23_OneLookupPerCandidateInOrder ==
    /\ r_pc \in {"loop", "returned"} =>
          /\ Len(lookups) <= Len(symbols)
          /\ \A i \in DOMAIN lookups :
                /\ lookups[i].symbol = symbols[i]
                /\ lookups[i].index_name = r_args.index_name
                /\ lookups[i].timeout = r_args.timeout
                /\ lookups[i].start_date = r_args.target_date - 5
                /\ lookups[i].end_date = r_args.target_date + 5
    /\ r_pc = "returned" => Len(lookups) = Len(symbols)
    /\ r_pc # "idle" =>
          IF r_args.symbols_given
          THEN watchlist_calls = <<>>
          ELSE /\ Len(watchlist_calls) = 1
               /\ watchlist_calls[1].lookups_before = 0
               /\ watchlist_calls[1].watchlist_name = r_args.index_name

\* a call without a symbol list that returned after the watchlist gave the
\* same symbol twice: two lookups of that symbol, the first of which raised a
\* skipped error
C23_Witness ==
    /\ r_pc = "returned"
    /\ ~r_args.symbols_given
    /\ Len(watchlist_calls) = 1
    /\ symbols = <<"AAPL", "AAPL">>
    /\ Len(lookups) = 2
    /\ ~responses[1].ok
    /\ responses[2].ok

\* C26: every list of the _check_date_gaps result is non-empty and in
\* ascending date order, and each of its pairs is two consecutive dates of the
\* symbol's own sorted distinct dates, the earlier one first; a symbol with
\* fewer than 2 distinct dates has no list.
C26_GapListsWellFormed ==
    ret.op = "_check_date_gaps" =>
        \A t \in DOMAIN ret.out :
            LET gaps == ret.out[t]
            IN  /\ gaps # <<>>
                /\ Cardinality(DatesOf(ret.df, t)) >= 2
                /\ \A i \in DOMAIN gaps :
                      /\ gaps[i][1] < gaps[i][2]
                      /\ Adjacent(ret.df, t, gaps[i][1], gaps[i][2])
                /\ \A i \in DOMAIN gaps, j \in DOMAIN gaps :
                      i < j => gaps[i][1] < gaps[j][1]

\* one symbol with three rows that are not in date order in the frame and two
\* gaps in its list
C26_Witness ==
    /\ ret.op = "_check_date_gaps"
    /\ Len(ret.df.rows) = 3
    /\ ret.df.rows[1].date > ret.df.rows[2].date
    /\ \E t \in DOMAIN ret.out : Len(ret.out[t]) = 2

\* C27: no symbol is twice in the result of _check_adjustment_consistency; a
\* symbol with a negative close is in it once, whether or not it also has an
\* unexplained jump.
C27_EachSymbolAtMostOnce ==
    ret.op = "_check_adjustment_consistency" =>
        /\ \A i \in DOMAIN ret.out, j \in DOMAIN ret.out :
              ret.out[i] = ret.out[j] => i = j
        /\ \A t \in KeySymbols(ret.df) :
              HasNegativeClose(ret.df, t) =>
                  Cardinality({i \in DOMAIN ret.out : ret.out[i] = t}) = 1

\* a symbol whose close jumps from 10 to 15 without a dividend and is negative
\* on another date, listed once
C27_Witness ==
    /\ ret.op = "_check_adjustment_consistency"
    /\ ret.df.multi_index
    /\ HasNegativeClose(ret.df, "AAPL")
    /\ \E i \in DOMAIN ret.df.rows, j \in DOMAIN ret.df.rows :
          /\ ret.df.rows[i].symbol = "AAPL" /\ ret.df.rows[j].symbol = "AAPL"
          /\ ret.df.rows[i].date + 1 = ret.df.rows[j].date
          /\ ret.df.rows[i].close = 10 /\ ret.df.rows[j].close = 15
          /\ ret.df.rows[j].dividend = 0
    /\ ret.arg = [num |-> 2, den |-> 5]
    /\ ret.out = <<"AAPL">>

\* the latest date of a dataset
TopDate(df) ==
    CHOOSE d \in {r.date : r \in Range(df.rows)} : \A r \in Range(df.rows) : r.date <= d

\* C29: for a non-empty dataset, when the horizon is the dataset's latest date
\* (check_delisting_status without query_end_date or with that date, and
\* validate_prices), no symbol whose last date is that date is in the
\* delisting result, so never every symbol of the dataset is.
C29_LatestSymbolsNeverDelisted ==
    (/\ ret.op \in {"check_delisting_status", "validate_prices"}
     /\ ret.df.multi_index
     /\ ret.df.rows # <<>>) =>
        LET top == TopDate(ret.df)
            horizon_is_top ==
                IF ret.op = "validate_prices" THEN TRUE
                ELSE /\ ret.arg.threshold_days >= 0
                     /\ ret.arg.query_end_date \in {None, top}
            out == IF ret.op = "validate_prices" THEN ret.out.delisting_events ELSE ret.out
        IN  horizon_is_top =>
                /\ \A t \in SymbolsOf(ret.df) :
                      LastObserved(ret.df, t) = top => t \notin DOMAIN out
                /\ DOMAIN out # SymbolsOf(ret.df)

\* a call without query_end_date and with threshold 0 on two symbols: the one
\* that ends on the latest date is left out, the other is listed
C29_Witness ==
    /\ ret.op = "check_delisting_status"
    /\ ret.arg.query_end_date = None
    /\ ret.arg.threshold_days = 0
    /\ ret.df.multi_index
    /\ Cardinality(SymbolsOf(ret.df)) = 2
    /\ Cardinality(DOMAIN ret.out) = 1
    /\ \E t \in SymbolsOf(ret.df) :
          /\ Cardinality(DatesOf(ret.df, t)) = 2
          /\ LastObserved(ret.df, t) = TopDate(ret.df)
          /\ t \notin DOMAIN ret.out

RECURSIVE IsSubsequence(_, _)
\* s is t with some entries left out
IsSubsequence(s, t) ==
    IF s = <<>> THEN TRUE
    ELSE IF t = <<>> THEN FALSE
    ELSE IF Head(s) = Head(t) THEN IsSubsequence(Tail(s), Tail(t))
    ELSE IsSubsequence(s, Tail(t))

\* how often x is in s
Occurrences(s, x) == Cardinality({i \in DOMAIN s : s[i] = x})

\* C30: the list get_index_constituents_at_date returns is a subsequence of
\* the candidate list: its symbols are candidates, in the candidates' relative
\* order, none more often than in the candidate list.
C30_ResultSubsequenceOfCandidates ==
    r_pc = "returned" =>
        /\ IsSubsequence(r_out.value, symbols)
        /\ Range(r_out.value) \subseteq Range(symbols)
        /\ \A x \in Range(symbols) : Occurrences(r_out.value, x) <= Occurrences(symbols, x)

\* two distinct candidates, both members: returned in candidate order
C30_Witness ==
    /\ r_pc = "returned"
    /\ symbols = <<"BOGUS", "AAPL">>
    /\ r_out.value = <<"BOGUS", "AAPL">>

=============================================================================
